---- MODULE Spec2Model ----
(***************************************************************************)
(* Model of src/src/confirm.rs: send_transaction_with_confirmation, the    *)
(* Confirmations orchestrator and the WaitForConfirmations engine, driven  *)
(* against a node that answers each JSON-RPC request with a value or an    *)
(* error.                                                                  *)
(*                                                                         *)
(* Every poll() of the source is a loop over the arms of a match, and an   *)
(* arm runs only when the future it awaits (try_ready!) is ready.  One     *)
(* action of the model is one arm, taken whole: the response it consumes,  *)
(* the requests it issues, the state it assigns and the values that        *)
(* assignment drops.  A poll that returns NotReady changes nothing.        *)
(***************************************************************************)
EXTENDS Integers, Sequences, FiniteSets, TLC

\* ---------------------------------------------------------------- bounds
\* Word width of u64, scaled down so that TLC reaches the wrap-around.
U64Bits == 3
\* Largest confirmation count a caller passes.
MaxConfirmations == 2
\* Largest number of block hashes the filter reports in one operation.
MaxHashes == 3
\* Largest number of eth_getFilterChanges requests of one operation.
MaxPolls == 2
\* Largest of the small block heights the node reports.
MaxHeight == 1

U64Modulus == 2 ^ U64Bits
\* The heights a node puts in a 256-bit quantity: small ones, the largest
\* u64 and the first two values past u64.
U256Values == (0 .. MaxHeight) \cup ((U64Modulus - 1) .. (U64Modulus + 1))

\* ---------------------------------------------------------------- values
\* Option::None of an Option<U256> or Option<TransactionReceipt>.
None == -1
\* The two error values a collaborator can fail with.
Errors == {"TransportError", "DecoderError"}
Methods == {"eth_sendTransaction", "eth_newBlockFilter", "eth_getFilterChanges",
            "eth_getTransactionReceipt", "eth_blockNumber", "eth_uninstallFilter"}

\* A request is idle (not issued), sent (issued, not answered) or ready
\* (answered; ok says whether with a value or an error).
Idle == [st |-> "idle", ok |-> TRUE, val |-> 0, err |-> "none"]
Sent == [st |-> "sent", ok |-> TRUE, val |-> 0, err |-> "none"]
Value(v) == [st |-> "ready", ok |-> TRUE, val |-> v, err |-> "none"]
Failure(e) == [st |-> "ready", ok |-> FALSE, val |-> 0, err |-> e]

Pending == [kind |-> "pending", val |-> 0, err |-> "none"]
ResultOk(v) == [kind |-> "ok", val |-> v, err |-> "none"]
ResultErr(e) == [kind |-> "err", val |-> 0, err |-> e]
Panic(msg) == [kind |-> "panic", val |-> 0, err |-> msg]

VARIABLES
  state,                      \* SendTransactionWithConfirmationState
  cstate,                     \* ConfirmationsState ("none" before construction)
  wstate,                     \* WaitForConfirmationsState
  fstate,                     \* state of the FilterStream
  items,                      \* hashes left in the batch being iterated
  skip_remaining,             \* notifications Skip still discards
  confirmations,              \* the caller's confirmation count
  confirmation_block_number,  \* the height pinned in CompareConfirmations
  filter_held,                \* the filter handle is alive in this operation
  net,                        \* per method: the request in flight and its answer
  requests,                   \* every request issued, in order
  result,                     \* what poll() has returned to the caller
  dropped,                    \* the caller has dropped the future
  abandoned,                  \* ... and did so before poll() returned a result
  overflow_checks,            \* the build panics on integer overflow (debug)
  server_filter,              \* the node's filter: none, installed, uninstalled
  delivered,                  \* hashes the FilterStream has yielded so far
  checks,                     \* confirmation checks started so far
  seen_receipt,               \* the receipt the check of this round resolved to
  last_fetch,                 \* what the final receipt fetch resolved to
  confirmed,                  \* the wait stage has returned Ok(())
  threshold_passed            \* <<h, block_number>> of the first comparison in
                              \* which a height query resolved past h + c

top == <<state, result, last_fetch, confirmed>>
orchestrator == <<cstate, filter_held>>
engine == <<wstate, confirmation_block_number, seen_receipt, checks,
            threshold_passed>>
stream == <<fstate, items, skip_remaining, delivered>>
caller == <<dropped, abandoned>>
config == <<confirmations, overflow_checks>>

vars == <<state, cstate, wstate, fstate, items, skip_remaining, confirmations,
          confirmation_block_number, filter_held, net, requests, result,
          dropped, abandoned, overflow_checks, server_filter, delivered,
          checks, seen_receipt, last_fetch, confirmed, threshold_passed>>

\* ------------------------------------------------------------- pure parts
\* The low 32 bits in place of the low 64.
LowU32(x) == x % (2 ^ (U64Bits - 1))

\* U256::low_u64: the low 64 bits.
LowU64(x) == x % U64Modulus

\* The skip one short of the confirmation count.
SkipOneLess(c) == IF c > 0 THEN c - 1 ELSE 0

\* The notifications Skip discards: filter.stream(..).skip(create.confirmations).
SkipCount(c) == c

\* confirmation_block_number + self.confirmations as a u64 that wrapped.
WrappingAdd(a, b) == (a + b) % U64Modulus

\* The u64 addition overflows.
Overflows(a, b) == a + b >= U64Modulus

\* The comparison in the sense "the chain has reached h + c".
EnoughConfirmationsReached(sum, current) == current >= sum

\* The comparison of line 54 on the computed sum.
EnoughConfirmations(sum, current) == sum >= current

\* An absent receipt read as a receipt of block 0.
ReceiptBlockNumberOrZero(receipt) == IF receipt = None THEN 0 ELSE receipt

\* TransactionReceiptBlockNumber::poll: receipt.map(|receipt| receipt.block_number).
\* A receipt is modelled by the height of its block, the one field the
\* program reads; the other fields are carried through unread.
ReceiptBlockNumber(receipt) == IF receipt = None THEN None ELSE receipt

Issue(n, method) == [n EXCEPT ![method] = Sent]
Take(n, method) == [n EXCEPT ![method] = Idle]
Count(method) == Cardinality({i \in 1..Len(requests) : requests[i] = method})

Running == result.kind = "pending" /\ ~dropped

\* Dropping the filter handle (FilterStream -> BaseFilter) uninstalls the
\* filter; without a handle there is nothing to uninstall.
DropFilter(held) == IF held THEN <<"eth_uninstallFilter">> ELSE <<>>

\* The state assigned before the receipt request is made: teardown first.
TeardownThenFetch(held) == DropFilter(held) \o <<"eth_getTransactionReceipt">>

\* The Confirmations future kept alive by the next state: no teardown.
FetchWithoutTeardown(held) == <<"eth_getTransactionReceipt">>

\* What the WaitForConfirmations arm of SendTransactionWithConfirmation::poll
\* issues once the wait stage is ready: the final receipt request (line 216),
\* then, by assigning self.state (line 224), the drop of the Confirmations
\* future and of the filter handle it owns.
ConfirmedRequests(held) == <<"eth_getTransactionReceipt">> \o DropFilter(held)

\* The receipt the confirmation check saw, returned in place of the fetched one.
ReturnSeenReceipt(receipt) == ResultOk(seen_receipt)

\* expect(..) of line 220 and the Ok of line 221.
ExpectReceipt(receipt) ==
  IF receipt = None
    THEN Panic("receipt can't be null after wait for confirmations; qed")
    ELSE ResultOk(receipt)

\* Every failure reported as the same error.
PropagateGeneric(e) == ResultErr("TransportError")

\* try_ready! on a failed future: the error is returned as it is.
Propagate(e) == ResultErr(e)

\* A constructor that leaves the filter to be created later.
NewConfirmationsLazy == <<>>

\* Confirmations::new (lines 84-95): eth.create_blocks_filter() is issued by
\* the constructor.
NewConfirmations == <<"eth_newBlockFilter">>

RECURSIVE IssueAll(_, _)
IssueAll(n, ms) == IF ms = <<>> THEN n ELSE IssueAll(Issue(n, Head(ms)), Tail(ms))

\* ------------------------------------------------------------------ Init
\* SendTransactionWithConfirmation::new: eth.send_transaction(tx) is issued
\* by the constructor.
Init ==
  /\ state = "SendTransaction"
  /\ cstate = "none"
  /\ wstate = "none"
  /\ fstate = "none"
  /\ items = 0
  /\ skip_remaining = 0
  /\ confirmations \in 0 .. MaxConfirmations
  /\ confirmation_block_number = None
  /\ filter_held = FALSE
  /\ net = [m \in Methods |-> IF m = "eth_sendTransaction" THEN Sent ELSE Idle]
  /\ requests = <<"eth_sendTransaction">>
  /\ result = Pending
  /\ dropped = FALSE
  /\ abandoned = FALSE
  /\ overflow_checks \in BOOLEAN
  /\ server_filter = "none"
  /\ delivered = 0
  /\ checks = 0
  /\ seen_receipt = None
  /\ last_fetch = None
  /\ confirmed = FALSE
  /\ threshold_passed = <<>>

\* ------------------------------------------------------------- the node
\* What the node can answer to a request of each method.
Answers(method) ==
  CASE method = "eth_getFilterChanges" -> 0 .. (MaxHashes - delivered)
    [] method = "eth_getTransactionReceipt" -> {None} \cup U256Values
    [] method = "eth_blockNumber" -> U256Values
    [] OTHER -> {0}

\* The node answers a request in flight with a value.
ServeValue(method) ==
  /\ net[method].st = "sent"
  /\ \E v \in Answers(method) : net' = [net EXCEPT ![method] = Value(v)]
  /\ server_filter' = CASE method = "eth_newBlockFilter" -> "installed"
                        [] method = "eth_uninstallFilter" -> "uninstalled"
                        [] OTHER -> server_filter
  /\ UNCHANGED <<top, orchestrator, engine, stream, caller, config, requests>>

\* The request fails: the transport or the node reports an error.
ServeError(method) ==
  /\ net[method].st = "sent"
  /\ \E e \in Errors : net' = [net EXCEPT ![method] = Failure(e)]
  /\ UNCHANGED <<top, orchestrator, engine, stream, caller, config, requests,
                 server_filter>>

\* ------------------------------------------- SendTransactionWithConfirmation
\* try_ready! returns the error of the awaited request from poll().
Fail(method) ==
  /\ net[method].st = "ready"
  /\ ~net[method].ok
  /\ result' = Propagate(net[method].err)
  /\ net' = Take(net, method)
  /\ UNCHANGED <<state, last_fetch, confirmed, orchestrator, engine, stream,
                 caller, config, requests, server_filter>>

\* Arm SendTransaction (lines 208-213): the hash arrives; Confirmations::new
\* issues eth_newBlockFilter and starts in Create.
SendTransaction ==
  /\ Running
  /\ state = "SendTransaction"
  /\ \/ /\ net["eth_sendTransaction"].st = "ready"
        /\ net["eth_sendTransaction"].ok
        /\ state' = "WaitForConfirmations"
        /\ cstate' = "Create"
        /\ requests' = requests \o NewConfirmations
        /\ net' = IssueAll(Take(net, "eth_sendTransaction"), NewConfirmations)
        /\ UNCHANGED <<result, last_fetch, confirmed, filter_held, engine,
                       stream, caller, config, server_filter>>
     \/ Fail("eth_sendTransaction")

\* Arm Create of Confirmations::poll (lines 110-120): the filter handle
\* arrives; the engine is built in WaitForNextBlock over the skipping stream.
Create ==
  /\ Running
  /\ state = "WaitForConfirmations"
  /\ cstate = "Create"
  /\ \/ /\ net["eth_newBlockFilter"].st = "ready"
        /\ net["eth_newBlockFilter"].ok
        /\ cstate' = "Wait"
        /\ wstate' = "WaitForNextBlock"
        /\ fstate' = "WaitForInterval"
        /\ skip_remaining' = SkipCount(confirmations)
        /\ filter_held' = TRUE
        /\ net' = Take(net, "eth_newBlockFilter")
        /\ UNCHANGED <<top, confirmation_block_number, seen_receipt, checks,
                       threshold_passed, items, delivered, caller, config,
                       requests, server_filter>>
     \/ Fail("eth_newBlockFilter")

\* ------------------------------------------------ FilterStream behind Skip
\* A stream polled for as long as the operation runs, whatever its stage.
PollingStreamAnyStage ==
  /\ Running
  /\ fstate # "none"

\* The engine polls the stream only in WaitForNextBlock (line 42).
PollingStream ==
  /\ Running
  /\ state = "WaitForConfirmations"
  /\ cstate = "Wait"
  /\ wstate = "WaitForNextBlock"

\* The poll interval has elapsed: the stream asks the node for the hashes
\* that arrived since the last poll.
StreamWaitForInterval ==
  /\ PollingStream
  /\ fstate = "WaitForInterval"
  /\ Count("eth_getFilterChanges") < MaxPolls
  /\ fstate' = "GetFilterChanges"
  /\ requests' = Append(requests, "eth_getFilterChanges")
  /\ net' = Issue(net, "eth_getFilterChanges")
  /\ UNCHANGED <<top, orchestrator, engine, items, skip_remaining, delivered,
                 caller, config, server_filter>>

\* The batch arrives (a null answer is an empty batch).
StreamGetFilterChanges ==
  /\ PollingStream
  /\ fstate = "GetFilterChanges"
  /\ \/ /\ net["eth_getFilterChanges"].st = "ready"
        /\ net["eth_getFilterChanges"].ok
        /\ fstate' = "NextItem"
        /\ items' = net["eth_getFilterChanges"].val
        /\ net' = Take(net, "eth_getFilterChanges")
        /\ UNCHANGED <<top, orchestrator, engine, skip_remaining, delivered,
                       caller, config, requests, server_filter>>
     \/ Fail("eth_getFilterChanges")

\* The batch is used up: back to waiting for the interval.
StreamBatchDone ==
  /\ PollingStream
  /\ fstate = "NextItem"
  /\ items = 0
  /\ fstate' = "WaitForInterval"
  /\ UNCHANGED <<top, orchestrator, engine, items, skip_remaining, delivered,
                 caller, config, net, requests, server_filter>>

\* The stream yields one hash and Skip discards it.
StreamSkip ==
  /\ PollingStream
  /\ fstate = "NextItem"
  /\ items > 0
  /\ skip_remaining > 0
  /\ items' = items - 1
  /\ delivered' = delivered + 1
  /\ skip_remaining' = skip_remaining - 1
  /\ UNCHANGED <<top, orchestrator, engine, fstate, caller, config, net,
                 requests, server_filter>>

\* ------------------------------------------------------ WaitForConfirmations
\* A BlockHeight of the data model: a height that fits in 64 bits.
IsBlockHeight(x) == x >= 0 /\ x < U64Modulus

\* The chain has advanced past the threshold of a transaction mined at h: the
\* height query resolved to a block height above h + confirmations.
PastThreshold(h, block_number) ==
  /\ IsBlockHeight(h)
  /\ IsBlockHeight(block_number)
  /\ block_number > h + confirmations

\* The check started on a hash that is left in the stream.
WaitForNextBlockKeepsHash ==
  /\ PollingStream
  /\ fstate = "NextItem"
  /\ items > 0
  /\ skip_remaining = 0
  /\ checks < MaxHashes
  /\ checks' = checks + 1
  /\ wstate' = "CheckConfirmation"
  /\ requests' = Append(requests, "eth_getTransactionReceipt")
  /\ net' = Issue(net, "eth_getTransactionReceipt")
  /\ UNCHANGED <<top, orchestrator, confirmation_block_number, seen_receipt,
                 threshold_passed, stream, caller, config, server_filter>>

\* The check started on a batch, its other hashes discarded.
WaitForNextBlockDrainsBatch ==
  /\ PollingStream
  /\ fstate = "NextItem"
  /\ items > 0
  /\ skip_remaining = 0
  /\ items' = 0
  /\ delivered' = delivered + items
  /\ checks' = checks + 1
  /\ wstate' = "CheckConfirmation"
  /\ requests' = Append(requests, "eth_getTransactionReceipt")
  /\ net' = Issue(net, "eth_getTransactionReceipt")
  /\ UNCHANGED <<top, orchestrator, confirmation_block_number, seen_receipt,
                 threshold_passed, fstate, skip_remaining, caller, config,
                 server_filter>>

\* Arm WaitForNextBlock (lines 41-44): the stream yields one hash past the
\* skip; the check is started (eth_getTransactionReceipt, lines 167-171).
WaitForNextBlock ==
  /\ PollingStream
  /\ fstate = "NextItem"
  /\ items > 0
  /\ skip_remaining = 0
  /\ items' = items - 1
  /\ delivered' = delivered + 1
  /\ checks' = checks + 1
  /\ wstate' = "CheckConfirmation"
  /\ requests' = Append(requests, "eth_getTransactionReceipt")
  /\ net' = Issue(net, "eth_getTransactionReceipt")
  /\ UNCHANGED <<top, orchestrator, confirmation_block_number, seen_receipt,
                 threshold_passed, fstate, skip_remaining, caller, config,
                 server_filter>>

\* Arm CheckConfirmation (lines 45-51).
CheckConfirmation ==
  /\ Running
  /\ state = "WaitForConfirmations"
  /\ cstate = "Wait"
  /\ wstate = "CheckConfirmation"
  /\ \/ /\ net["eth_getTransactionReceipt"].st = "ready"
        /\ net["eth_getTransactionReceipt"].ok
        /\ LET checked == ReceiptBlockNumber(net["eth_getTransactionReceipt"].val)
           IN  IF checked = None
                 THEN /\ wstate' = "WaitForNextBlock"
                      /\ net' = Take(net, "eth_getTransactionReceipt")
                      /\ UNCHANGED <<confirmation_block_number, seen_receipt,
                                     requests>>
                 ELSE /\ wstate' = "CompareConfirmations"
                      /\ confirmation_block_number' = LowU64(checked)
                      /\ seen_receipt' = net["eth_getTransactionReceipt"].val
                      /\ requests' = Append(requests, "eth_blockNumber")
                      /\ net' = Issue(Take(net, "eth_getTransactionReceipt"),
                                      "eth_blockNumber")
        /\ UNCHANGED <<top, orchestrator, checks, threshold_passed, stream,
                       caller, config, server_filter>>
     \/ Fail("eth_getTransactionReceipt")

\* Arm CompareConfirmations (lines 52-59).  The u64 sum of line 54 panics on
\* overflow in a build with overflow checks and wraps in one without.  When
\* the comparison holds the engine returns Ok, Confirmations::poll returns it
\* (line 121) and the WaitForConfirmations arm of the top level (lines
\* 214-218, 224) goes on in the same poll.
CompareConfirmations ==
  /\ Running
  /\ state = "WaitForConfirmations"
  /\ cstate = "Wait"
  /\ wstate = "CompareConfirmations"
  /\ \/ /\ net["eth_blockNumber"].st = "ready"
        /\ net["eth_blockNumber"].ok
        /\ LET current == LowU64(net["eth_blockNumber"].val)
               sum == WrappingAdd(confirmation_block_number, confirmations)
           IN  IF overflow_checks /\ Overflows(confirmation_block_number, confirmations)
                 THEN /\ result' = Panic("attempt to add with overflow")
                      /\ net' = Take(net, "eth_blockNumber")
                      /\ UNCHANGED <<state, confirmed, orchestrator, wstate,
                                     confirmation_block_number, seen_receipt,
                                     requests>>
                 ELSE IF EnoughConfirmations(sum, current)
                 THEN /\ confirmed' = TRUE
                      /\ state' = "GetTransactionReceipt"
                      /\ cstate' = "dropped"
                      /\ wstate' = "dropped"
                      /\ confirmation_block_number' = None
                      /\ filter_held' = FALSE
                      /\ requests' = requests \o ConfirmedRequests(filter_held)
                      /\ net' = IssueAll(Take(net, "eth_blockNumber"),
                                         ConfirmedRequests(filter_held))
                      /\ UNCHANGED <<result, seen_receipt>>
                 ELSE /\ wstate' = "WaitForNextBlock"
                      /\ confirmation_block_number' = None
                      /\ seen_receipt' = None
                      /\ net' = Take(net, "eth_blockNumber")
                      /\ UNCHANGED <<state, result, confirmed, orchestrator,
                                     requests>>
        /\ threshold_passed' =
             IF /\ threshold_passed = <<>>
                /\ PastThreshold(seen_receipt, net["eth_blockNumber"].val)
               THEN <<seen_receipt, net["eth_blockNumber"].val>>
               ELSE threshold_passed
        /\ UNCHANGED <<last_fetch, checks, stream, caller, config,
                       server_filter>>
     \/ Fail("eth_blockNumber")

\* Arm GetTransactionReceipt (lines 219-222).
GetTransactionReceipt ==
  /\ Running
  /\ state = "GetTransactionReceipt"
  /\ \/ /\ net["eth_getTransactionReceipt"].st = "ready"
        /\ net["eth_getTransactionReceipt"].ok
        /\ last_fetch' = net["eth_getTransactionReceipt"].val
        /\ result' = ExpectReceipt(net["eth_getTransactionReceipt"].val)
        /\ net' = Take(net, "eth_getTransactionReceipt")
        /\ UNCHANGED <<state, confirmed, orchestrator, engine, stream, caller,
                       config, requests, server_filter>>
     \/ Fail("eth_getTransactionReceipt")

\* The caller drops the future: after its result (future.wait() of line 293
\* consumes it), or before, abandoning the operation.  Every value the
\* current state owns is dropped with it.
Drop ==
  /\ ~dropped
  /\ dropped' = TRUE
  /\ abandoned' = (result.kind = "pending")
  /\ filter_held' = FALSE
  /\ requests' = requests \o DropFilter(filter_held)
  /\ net' = IssueAll(net, DropFilter(filter_held))
  /\ UNCHANGED <<top, cstate, engine, stream, config, server_filter>>

Next ==
  \/ SendTransaction
  \/ Create
  \/ StreamWaitForInterval
  \/ StreamGetFilterChanges
  \/ StreamBatchDone
  \/ StreamSkip
  \/ WaitForNextBlock
  \/ CheckConfirmation
  \/ CompareConfirmations
  \/ GetTransactionReceipt
  \/ Drop
  \/ \E m \in Methods : ServeValue(m)
  \/ \E m \in Methods : ServeError(m)

Spec == Init /\ [][Next]_vars

\* ---------------------------------------------------------------- claims
\* The client consumes the answer to its request of this method in this step.
Resolves(method) ==
  /\ Running
  /\ net[method].st = "ready"
  /\ net'[method].st # "ready"

\* A CompareConfirmations step in which the height query resolved to a value.
CompareStep ==
  /\ wstate = "CompareConfirmations"
  /\ Resolves("eth_blockNumber")
  /\ net["eth_blockNumber"].ok

\* The positions of the requests of one method in the log.
Positions(method) == {i \in 1 .. Len(requests) : requests[i] = method}

\* C1: a CompareConfirmations step whose height query resolves to
\* block_number succeeds exactly when h + c >= block_number (h the pinned
\* height, c the confirmation count, in unbounded integers), and otherwise
\* goes back to WaitForNextBlock without succeeding.
C1_SuccessExactlyWhenEnough ==
  [][CompareStep =>
       IF confirmation_block_number + confirmations
            >= LowU64(net["eth_blockNumber"].val)
         THEN confirmed' /\ result'.kind = "pending"
         ELSE /\ ~confirmed'
              /\ wstate' = "WaitForNextBlock"
              /\ result'.kind = "pending"]_vars

\* C2: when the wait stage succeeds on the first height query of the
\* operation (so the reported chain height never decreased) and the check's
\* height h is not above the reported height block_number, then
\* block_number - h >= ConfirmationCount.
C2_SuccessMeansEnoughBlocks ==
  [][(/\ CompareStep
      /\ confirmed'
      /\ Cardinality(Positions("eth_blockNumber")) = 1
      /\ seen_receipt <= net["eth_blockNumber"].val)
     => net["eth_blockNumber"].val - seen_receipt >= confirmations]_vars

\* The requests of a successful run, as the spec orders them: submit, create,
\* polls and checks, ONE height query, the final fetch, the teardown.
SingleQueryOrder ==
  LET n == Len(requests)
  IN  /\ n >= 7
      /\ requests[1] = "eth_sendTransaction"
      /\ requests[2] = "eth_newBlockFilter"
      /\ \A i \in 3 .. (n - 3) :
           requests[i] \in {"eth_getFilterChanges", "eth_getTransactionReceipt"}
      /\ requests[n - 3] = "eth_getTransactionReceipt"
      /\ requests[n - 2] = "eth_blockNumber"
      /\ requests[n - 1] = "eth_getTransactionReceipt"
      /\ requests[n] = "eth_uninstallFilter"

\* C3 as stated: a run that ends in success issued exactly submit, create,
\* polls interleaved with checks, one height query, the final fetch and the
\* teardown, in this order.
C3_ExactlyOneHeightQuery == result.kind = "ok" => SingleQueryOrder

\* The order with every check that found a receipt followed by its own
\* height query.
RoundsOrder ==
  LET n == Len(requests)
  IN  /\ n >= 7
      /\ requests[1] = "eth_sendTransaction"
      /\ requests[2] = "eth_newBlockFilter"
      /\ requests[3] = "eth_getFilterChanges"
      /\ \A i \in 3 .. (n - 2) :
           requests[i] \in {"eth_getFilterChanges", "eth_getTransactionReceipt",
                            "eth_blockNumber"}
      /\ \A i \in Positions("eth_blockNumber") :
           requests[i - 1] = "eth_getTransactionReceipt"
      /\ requests[n - 2] = "eth_blockNumber"
      /\ requests[n - 1] = "eth_getTransactionReceipt"
      /\ requests[n] = "eth_uninstallFilter"

\* C3 amended: a run that ends in success issued one submit, one create,
\* then polls interleaved with checks, each height query directly after a
\* check, the last height query directly followed by the final fetch and
\* then the one teardown, and nothing else.
C3_RequestOrder == result.kind = "ok" => RoundsOrder

\* C3 witness: a successful run whose first comparison failed.
C3_Witness ==
  /\ result.kind = "ok"
  /\ Cardinality(Positions("eth_blockNumber")) = 2

\* C4: a returned receipt is the one the final fetch resolved to, and it is
\* returned only after the wait stage has succeeded.
C4_ReturnsFinalFetch ==
  result.kind = "ok" =>
    /\ confirmed
    /\ state = "GetTransactionReceipt"
    /\ last_fetch # None
    /\ result.val = last_fetch

\* C4 witness: the returned receipt differs from the one the deciding check
\* saw.
C4_Witness ==
  /\ result.kind = "ok"
  /\ seen_receipt # None
  /\ result.val # seen_receipt

\* C5: when the final fetch resolves to an absent receipt the operation
\* returns the error ProtocolInvariantViolation.
C5_AbsentReceiptIsError ==
  [][(/\ state = "GetTransactionReceipt"
      /\ Resolves("eth_getTransactionReceipt")
      /\ net["eth_getTransactionReceipt"].ok
      /\ net["eth_getTransactionReceipt"].val = None)
     => result' = ResultErr("ProtocolInvariantViolation")]_vars

\* The methods whose answer the operation awaits.
Awaited == Methods \ {"eth_uninstallFilter"}

\* C6: a failed request ends the operation with that very error and issues
\* nothing; once the operation has failed, the only request that can still
\* follow is the one teardown of a filter that was created; a failed submit
\* leaves no filter request at all.
C6_FailFast ==
  /\ [][\A m \in Awaited :
          (Resolves(m) /\ ~net[m].ok) =>
            /\ result' = ResultErr(net[m].err)
            /\ requests' = requests]_vars
  /\ [][result.kind = "err" =>
          /\ result' = result
          /\ \/ requests' = requests
             \/ /\ requests' = Append(requests, "eth_uninstallFilter")
                /\ Positions("eth_uninstallFilter") = {}]_vars
  /\ []((result.kind = "err" /\ state = "SendTransaction") =>
          requests = <<"eth_sendTransaction">>)

\* C6 witness: a failure in the wait stage, followed by the teardown.
C6_Witness ==
  /\ result.kind = "err"
  /\ state = "WaitForConfirmations"
  /\ cstate = "Wait"
  /\ requests[Len(requests)] = "eth_uninstallFilter"

\* The operation has ended: poll() returned and the caller let the future go.
Ended == result.kind # "pending" /\ dropped /\ ~abandoned

\* C7: the filter is never uninstalled twice; a successful operation has
\* uninstalled it when it returns; an ended operation whose filter was
\* created has uninstalled it exactly once.
C7_OneTeardown ==
  /\ Cardinality(Positions("eth_uninstallFilter")) <= 1
  /\ result.kind = "ok" => Cardinality(Positions("eth_uninstallFilter")) = 1
  /\ (Ended /\ cstate \in {"Wait", "dropped"}) =>
       Cardinality(Positions("eth_uninstallFilter")) = 1

\* C7 witness: an operation that failed in the wait stage and has ended.
C7_Witness ==
  /\ Ended
  /\ result.kind = "err"
  /\ cstate = "Wait"

\* C8: after an operation was abandoned, a filter the node has created for
\* it has an uninstall request.
C8_AbandonReleasesFilter ==
  (abandoned /\ server_filter # "none") => Positions("eth_uninstallFilter") # {}

\* C9: every hash the stream has yielded is one of the first
\* ConfirmationCount, discarded, or started one check; no check and no
\* height query is issued before hash ConfirmationCount + 1.
C9_SkipsFirstNotifications ==
  /\ checks > 0 => skip_remaining = 0
  /\ cstate = "Wait" => delivered = (confirmations - skip_remaining) + checks
  /\ (\/ Positions("eth_getTransactionReceipt") # {}
      \/ Positions("eth_blockNumber") # {}) => delivered >= confirmations + 1
  /\ checks = Cardinality(Positions("eth_getTransactionReceipt"))
              - (IF state = "GetTransactionReceipt" THEN 1 ELSE 0)

\* C9 witness: the first check, started on the hash after two discarded ones
\* that came in separate batches.
C9_Witness ==
  /\ checks = 1
  /\ confirmations = 2
  /\ delivered = 3
  /\ Cardinality(Positions("eth_getFilterChanges")) >= 2

\* C10: the filter is created when the wait operation is constructed and
\* only then; the orchestrator goes Create -> Wait once and never back.
C10_CreatedOnce ==
  /\ [](Cardinality(Positions("eth_newBlockFilter"))
          = (IF cstate = "none" THEN 0 ELSE 1))
  /\ [][/\ cstate = "none" => cstate' \in {"none", "Create"}
        /\ cstate = "Create" => cstate' \in {"Create", "Wait"}
        /\ cstate = "Wait" => cstate' \in {"Wait", "dropped"}
        /\ cstate = "dropped" => cstate' = "dropped"]_vars

\* C10 witness: the engine has looped twice in Wait over the one filter.
C10_Witness ==
  /\ cstate = "Wait"
  /\ checks >= 2
  /\ Cardinality(Positions("eth_newBlockFilter")) = 1

\* This step issues a request of this method.
Issues(method) ==
  \E i \in (Len(requests) + 1) .. Len(requests') : requests'[i] = method

\* A CheckConfirmation step in which the check resolved to a value.
CheckStep ==
  /\ state = "WaitForConfirmations"
  /\ wstate = "CheckConfirmation"
  /\ Resolves("eth_getTransactionReceipt")
  /\ net["eth_getTransactionReceipt"].ok

\* C11: with ConfirmationCount = 0 the round in which the check first
\* resolves to Some(h) succeeds, whatever block height the height query of
\* that round returns (block_number > h included).
C11_ZeroIsImmediatelySufficient ==
  [][(/\ CompareStep
      /\ confirmations = 0
      /\ Cardinality(Positions("eth_blockNumber")) = 1
      /\ IsBlockHeight(seen_receipt)
      /\ IsBlockHeight(net["eth_blockNumber"].val))
     => confirmed']_vars

\* C12: a check that resolves to None sends the engine back to
\* WaitForNextBlock and issues and reports nothing.  A height query is issued,
\* and CompareConfirmations entered, only by a check that resolved to Some;
\* success comes only out of CompareConfirmations; and the operation ends
\* only on a failed request, in CompareConfirmations or in the final stage.
\* So while every check resolves to None and nothing fails there is no height
\* query, no comparison, no success and no error.
C12_NoneKeepsWaiting ==
  /\ [][(CheckStep /\ net["eth_getTransactionReceipt"].val = None) =>
          /\ wstate' = "WaitForNextBlock"
          /\ requests' = requests
          /\ result' = Pending
          /\ ~confirmed']_vars
  /\ [][(\/ Issues("eth_blockNumber")
         \/ wstate # "CompareConfirmations" /\ wstate' = "CompareConfirmations")
        => (CheckStep /\ net["eth_getTransactionReceipt"].val # None)]_vars
  /\ [][(~confirmed /\ confirmed') => CompareStep]_vars
  /\ [][(result = Pending /\ result' # Pending) =>
          \/ \E m \in Awaited : Resolves(m) /\ ~net[m].ok
          \/ wstate = "CompareConfirmations"
          \/ state = "GetTransactionReceipt"]_vars

\* C12 witness: two checks have resolved to None; the engine waits for the
\* next notification and no height query was ever issued.
C12_Witness ==
  /\ checks >= 2
  /\ wstate = "WaitForNextBlock"
  /\ net["eth_getTransactionReceipt"].st = "idle"
  /\ Positions("eth_blockNumber") = {}
  /\ result = Pending

\* The requests issued and not yet answered.
Outstanding == {m \in Methods : net[m].st = "sent"}

\* C14: while the operation is owned by its caller, at most one of its
\* requests is outstanding (issued and not yet resolved).
C14_OneOutstanding == ~dropped => Cardinality(Outstanding) <= 1

\* C15: a comparison whose height query resolves to a block height above
\* h + c does not succeed; and once one has, with h the height of that check
\* and block_number the height reported then, no later comparison succeeds
\* in which the check reports the same h and the chain height has not
\* decreased: the engine goes back to WaitForNextBlock each time.
C15_NeverSucceedsPastThreshold ==
  [][(/\ CompareStep
      /\ \/ PastThreshold(seen_receipt, net["eth_blockNumber"].val)
         \/ /\ threshold_passed # <<>>
            /\ seen_receipt = threshold_passed[1]
            /\ IsBlockHeight(net["eth_blockNumber"].val)
            /\ net["eth_blockNumber"].val >= threshold_passed[2])
     => /\ ~confirmed'
        /\ wstate' = "WaitForNextBlock"
        /\ result' = Pending]_vars

\* C15 witness: the threshold was passed in an earlier round; in this round
\* the check reported the same h again and the height query has resolved to
\* a higher chain height than then.
C15_Witness ==
  /\ Running
  /\ wstate = "CompareConfirmations"
  /\ threshold_passed # <<>>
  /\ seen_receipt = threshold_passed[1]
  /\ net["eth_blockNumber"].st = "ready"
  /\ net["eth_blockNumber"].ok
  /\ IsBlockHeight(net["eth_blockNumber"].val)
  /\ net["eth_blockNumber"].val > threshold_passed[2]

\* The engine's requests issued after its latest height query.
SinceHeightQuery ==
  LET last == CHOOSE i \in Positions("eth_blockNumber") :
                \A j \in Positions("eth_blockNumber") : j <= i
  IN  {requests[k] : k \in (last + 1) .. Len(requests)}

\* C16: in CompareConfirmations the height the comparison uses is the block
\* height h the check of this round resolved to, and the engine has issued
\* no receipt request since it asked for the chain height.
C16_HeightPinnedInRound ==
  wstate = "CompareConfirmations" =>
    /\ seen_receipt # None
    /\ IsBlockHeight(seen_receipt) => confirmation_block_number = seen_receipt
    /\ net["eth_getTransactionReceipt"].st = "idle"
    /\ "eth_getTransactionReceipt" \notin SinceHeightQuery
    /\ "eth_getFilterChanges" \notin SinceHeightQuery

\* C16 witness: the check resolved to the largest 64-bit height and the
\* height query of the round has been answered.
C16_Witness ==
  /\ Running
  /\ wstate = "CompareConfirmations"
  /\ seen_receipt = U64Modulus - 1
  /\ net["eth_blockNumber"].st = "ready"

\* The notifications the engine has consumed: the hashes yielded past the skip.
Consumed == delivered - (confirmations - skip_remaining)

\* The checks whose result the engine has taken.
ChecksTaken ==
  checks - (IF wstate = "CheckConfirmation" /\ result = Pending THEN 1 ELSE 0)

\* C17: a check is started only in WaitForNextBlock, by consuming one fresh
\* notification; a height query is issued only by the step in which the
\* check of the round resolved to Some(h), alone and once; a check that
\* resolved to None issues nothing.  At any point the checks started are at
\* most the notifications consumed after the skip, and the height queries at
\* most the checks whose result was taken.
C17_PerRoundOrder ==
  /\ [][checks' # checks =>
          /\ checks' = checks + 1
          /\ wstate = "WaitForNextBlock"
          /\ wstate' = "CheckConfirmation"
          /\ skip_remaining = 0
          /\ delivered' = delivered + 1
          /\ requests' = Append(requests, "eth_getTransactionReceipt")]_vars
  /\ [][(Issues("eth_getTransactionReceipt") /\ ~confirmed') =>
          checks' = checks + 1]_vars
  /\ [][Issues("eth_blockNumber") =>
          /\ CheckStep
          /\ net["eth_getTransactionReceipt"].val # None
          /\ requests' = Append(requests, "eth_blockNumber")]_vars
  /\ [][(CheckStep /\ net["eth_getTransactionReceipt"].val = None) =>
          requests' = requests]_vars
  /\ [](cstate = "Wait" => checks <= Consumed)
  /\ [](Cardinality(Positions("eth_blockNumber")) <= ChecksTaken)

\* C17 witness: three notifications consumed, three checks started, one
\* height query so far: one of the first two checks resolved to None, the
\* other to Some(h) with a comparison that failed.
C17_Witness ==
  /\ cstate = "Wait"
  /\ checks = 3
  /\ Consumed = 3
  /\ Cardinality(Positions("eth_blockNumber")) = 1

\* C18: a check consumes one block hash of the batch and no poll-filter
\* request is issued with it; a poll-filter request is issued only when the
\* batch is used up and the engine is in WaitForNextBlock; while hashes of a
\* batch are left no poll-filter request is in flight.
C18_OneHashOneNotification ==
  /\ [][checks' = checks + 1 =>
          /\ items' = items - 1
          /\ ~Issues("eth_getFilterChanges")]_vars
  /\ [][Issues("eth_getFilterChanges") =>
          /\ items = 0
          /\ wstate = "WaitForNextBlock"
          /\ requests' = Append(requests, "eth_getFilterChanges")]_vars
  /\ [](items > 0 => net["eth_getFilterChanges"].st = "idle")

\* C18 witness: one poll-filter response has driven three checks.
C18_Witness ==
  /\ checks = 3
  /\ Cardinality(Positions("eth_getFilterChanges")) = 1

\* C19: no poll-filter request follows the uninstall-filter request in the
\* log; once the uninstall is issued the wait stage has ended or the
\* operation was dropped, and the engine takes no step that polls the filter.
C19_NoPollAfterUninstall ==
  /\ \A i \in Positions("eth_uninstallFilter") :
       \A j \in Positions("eth_getFilterChanges") : j < i
  /\ Positions("eth_uninstallFilter") # {} =>
       /\ confirmed \/ dropped
       /\ ~filter_held
       /\ ~(Running /\ state = "WaitForConfirmations")

\* C19 witness: the filter was polled twice and uninstalled on success; the
\* operation still runs (the final fetch is awaited).
C19_Witness ==
  /\ Running
  /\ confirmed
  /\ Positions("eth_uninstallFilter") # {}
  /\ Cardinality(Positions("eth_getFilterChanges")) = 2

\* C20: for a 64-bit height h of the check, the comparison step succeeds
\* exactly when h + c >= block_number in unbounded integers, block_number
\* the height query's answer as the node gave it, and it never aborts.
C20_DecisionIsUnboundedComparison ==
  [][(CompareStep /\ IsBlockHeight(seen_receipt)) =>
       /\ result'.kind # "panic"
       /\ confirmed' <=>
            (seen_receipt + confirmations >= net["eth_blockNumber"].val)]_vars

====
